---------------------------- MODULE Spec2Model ----------------------------
(***************************************************************************)
(* Model of scripts/export-events.mjs: the Airtable -> events.json export. *)
(*                                                                         *)
(* Strings whose content matters (dates, times, event types) are sequences *)
(* of one-character strings, so that formatting, lower-casing and the      *)
(* lexicographic comparison of the date filter are computed and not        *)
(* assumed.  An instant (a JavaScript Date) is a number of minutes since   *)
(* 1970-01-01T00:00Z; an ISO-8601 UTC timestamp is the record of its       *)
(* fields [y, mo, d, h, mi].                                               *)
(***************************************************************************)
EXTENDS Integers, Sequences, FiniteSets, TLC

VARIABLES
    apiKey,         \* process.env.AIRTABLE_API_KEY (NULL when unset)
    baseId,         \* process.env.AIRTABLE_BASE_ID (NULL when unset)
    pc,             \* position of the script
    records,        \* fetchApprovedEvents: the accumulator `events`
    offset,         \* fetchApprovedEvents: `offset`
    nRequests,      \* number of fetch() calls issued
    nResponses,     \* number of responses received
    sentOffset,     \* the `offset` parameter of the latest request (NULL: none)
    lastStatus,     \* outcome of the latest response (NULL: none yet)
    lastToken,      \* data.offset of the latest successful response
    pages,          \* history: every successful page, [records, hasToken]
    events,         \* main: records.map(transformEvent)
    now,            \* main: `now` (line 89)
    tz,             \* the time zone of the process (TZ of the job runner)
    prevMonthStart, \* main: the threshold string
    recent,         \* main: recentAndFutureEvents
    file,           \* content of events.json
    writes,         \* number of times events.json was opened for writing
    error,          \* the error that rejected main(), NULL when none
    exitCode,       \* process exit status, NULL while running
    tRecord,        \* transformEvent alone: its argument
    tResult         \* transformEvent alone: what it returned or threw

vars == <<apiKey, baseId, pc, records, offset, nRequests, nResponses,
          sentOffset, lastStatus, lastToken, pages, events, now, tz,
          prevMonthStart, recent, file, writes, error, exitCode, tRecord,
          tResult>>

NULL == "undefined"

(***************************************************************************)
(* Calendar arithmetic of Date (proleptic Gregorian calendar).             *)
(***************************************************************************)
MinutesPerDay == 24 * 60

\* The calendar operations are functions: their arguments are values.

\* Days since 1970-01-01 of the civil date y-m-d.
DaysFromCivil[y \in Int, m \in Int, d \in Int] ==
    LET yy  == IF m <= 2 THEN y - 1 ELSE y
        era == yy \div 400
        yoe == yy - era * 400
        mp  == IF m > 2 THEN m - 3 ELSE m + 9
        doy == (153 * mp + 2) \div 5 + d - 1
        doe == yoe * 365 + yoe \div 4 - yoe \div 100 + doy
    IN  era * 146097 + doe - 719468

\* The civil date [y, mo, d] of a number of days since 1970-01-01.
CivilFromDays[z \in Int] ==
    LET zz  == z + 719468
        era == zz \div 146097
        doe == zz - era * 146097
        yoe == (doe - doe \div 1460 + doe \div 36524 - doe \div 146096) \div 365
        doy == doe - (365 * yoe + yoe \div 4 - yoe \div 100)
        mp  == (5 * doy + 2) \div 153
        d   == doy - (153 * mp + 2) \div 5 + 1
        m   == IF mp < 10 THEN mp + 3 ELSE mp - 9
        y   == yoe + era * 400
    IN  [y |-> IF m <= 2 THEN y + 1 ELSE y, mo |-> m, d |-> d]

\* 0 = Sunday ... 6 = Saturday (1970-01-01 was a Thursday).
Weekday(days) == (days + 4) % 7

\* new Date(iso): the instant of an ISO-8601 UTC timestamp.
ParseISO(iso) ==
    DaysFromCivil[iso.y, iso.mo, iso.d] * MinutesPerDay + iso.h * 60 + iso.mi

\* The instant at which British Summer Time starts (m = 3) or ends (m = 10)
\* in year y: 01:00 UTC on the last Sunday of the month.
LastSundayOneUTC[y \in Int, m \in Int] ==
    LET last == DaysFromCivil[y, m, 31]
    IN  (last - Weekday(last)) * MinutesPerDay + 60

\* Offset from UTC, in minutes, of Europe/London at instant t.
LondonOffset[t \in Int] ==
    LET y == CivilFromDays[t \div MinutesPerDay].y
    IN  IF LastSundayOneUTC[y, 3] <= t /\ t < LastSundayOneUTC[y, 10]
        THEN 60 ELSE 0

\* Wall-clock fields [y, mo, d, h, mi] of instant t at a UTC offset.
WallClock[t \in Int, off \in Int] ==
    LET l == t + off
        c == CivilFromDays[l \div MinutesPerDay]
        m == l % MinutesPerDay
    IN  [y |-> c.y, mo |-> c.mo, d |-> c.d, h |-> m \div 60, mi |-> m % 60]

(***************************************************************************)
(* Strings as sequences of characters.                                     *)
(***************************************************************************)
Digits == <<"0", "1", "2", "3", "4", "5", "6", "7", "8", "9">>

Pad2(n) == <<Digits[((n \div 10) % 10) + 1], Digits[(n % 10) + 1]>>

Pad4(n) == Pad2(n \div 100) \o Pad2(n % 100)

\* UTF-16 code unit of a character of a formatted date.
CodeUnit(c) ==
    IF c = "-" THEN 45
    ELSE 48 + (CHOOSE i \in 0..9 : Digits[i + 1] = c)

\* JavaScript's a >= b on strings: lexicographic on code units.
RECURSIVE StrGE(_, _)
StrGE(a, b) ==
    IF b = <<>> THEN TRUE
    ELSE IF a = <<>> THEN FALSE
    ELSE IF Head(a) = Head(b) THEN StrGE(Tail(a), Tail(b))
    ELSE CodeUnit(Head(a)) > CodeUnit(Head(b))

UpperCase == <<"A", "B", "C", "D", "E", "F", "G", "H", "I", "J", "K", "L", "M",
               "N", "O", "P", "Q", "R", "S", "T", "U", "V", "W", "X", "Y", "Z">>
LowerCase == <<"a", "b", "c", "d", "e", "f", "g", "h", "i", "j", "k", "l", "m",
               "n", "o", "p", "q", "r", "s", "t", "u", "v", "w", "x", "y", "z">>

ToLowerChar(c) ==
    IF \E i \in 1..Len(UpperCase) : UpperCase[i] = c
    THEN LowerCase[CHOOSE i \in 1..Len(UpperCase) : UpperCase[i] = c]
    ELSE c

\* String.prototype.toLowerCase
ToLowerCase(s) == [i \in 1..Len(s) |-> ToLowerChar(s[i])]

(***************************************************************************)
(* JavaScript values of a record's fields: a field is absent, a string or  *)
(* a number.  Start and End hold ISO timestamps.                           *)
(***************************************************************************)
Str(s) == [t |-> "string", v |-> s]
Num(s) == [t |-> "number", v |-> s]
Absent == [t |-> "undefined", v |-> <<>>]

NoISO == [y |-> 0, mo |-> 0, d |-> 0, h |-> 0, mi |-> 0]
Stamp(y, mo, d, h, mi) ==
    [t |-> "string", v |-> [y |-> y, mo |-> mo, d |-> d, h |-> h, mi |-> mi]]
NoStamp == [t |-> "undefined", v |-> NoISO]

\* !x
Falsy(x) ==
    \/ x.t = "undefined"
    \/ x.t = "string" /\ x.v = <<>>
    \/ x.t = "number" /\ x.v = <<"0">>

\* Mutant of OrElse: the default is forgotten.
OrElseNoDefault(a, b) == a

\* a || b
OrElse(a, b) == IF Falsy(a) THEN b ELSE a

InvalidDate == <<"I", "n", "v", "a", "l", "i", "d", " ", "D", "a", "t", "e">>

\* HH:MM of the wall clock of instant t in Europe/London.
LondonClock[t \in Int] ==
    LET w == WallClock[t, LondonOffset[t]]
    IN  Pad2(w.h) \o <<":">> \o Pad2(w.mi)

\* toLocaleTimeString('en-GB', {hour: '2-digit', minute: '2-digit',
\*   hour12: false, timeZone: 'Europe/London'}) of new Date(iso)
LondonTime(iso) ==
    IF iso.t = "undefined" THEN InvalidDate ELSE LondonClock[ParseISO(iso.v)]

\* toLocaleDateString('en-CA', {timeZone: 'Europe/London'}) of instant t
LondonDate[t \in Int] ==
    LET w == WallClock[t, LondonOffset[t]]
    IN  Pad4(w.y) \o <<"-">> \o Pad2(w.mo) \o <<"-">> \o Pad2(w.d)

\* The characters between the two times, as the source file holds them.
RangeSeparator == <<"U+00E2", "U+20AC", "U+201C">>

formatTime(startISO, endISO) ==
    LET startTime == LondonTime(startISO)
    IN  IF endISO.t = "undefined" THEN startTime
        ELSE startTime \o RangeSeparator \o LondonTime(endISO)

formatDate(isoString) ==
    IF isoString.t = "undefined" THEN InvalidDate
    ELSE LondonDate[ParseISO(isoString.v)]

\* (x).toLowerCase(): a TypeError unless x is a string.
LowerOf(x) ==
    IF x.t = "string"
    THEN [threw |-> FALSE, value |-> Str(ToLowerCase(x.v))]
    ELSE [threw |-> TRUE, name |-> "TypeError"]

Show == <<"s", "h", "o", "w">>

\* Mutant of urlOf: the event URL takes precedence.
urlOfEventFirst(fields) ==
    IF ~Falsy(fields.EventURL) THEN fields.EventURL
    ELSE IF ~Falsy(fields.TicketsURL) THEN fields.TicketsURL
    ELSE [t |-> "string", v |-> <<>>]

\* fields['Tickets URL'] || fields['Event URL'] || ''
urlOf(fields) == OrElse(fields.TicketsURL, OrElse(fields.EventURL, Str(<<>>)))

transformEvent(record) ==
    LET fields == record.fields
        type   == LowerOf(OrElse(fields.Type, Str(Show)))
    IN  IF type.threw THEN type
        ELSE [threw |-> FALSE,
              value |-> [date        |-> Str(formatDate(fields.Start)),
                         title       |-> OrElse(fields.Title, Str(<<>>)),
                         venue       |-> OrElse(fields.Venue, Str(<<>>)),
                         time        |-> Str(formatTime(fields.Start, fields.End)),
                         type        |-> type.value,
                         url         |-> urlOf(fields),
                         description |-> Str(<<>>)]]

(***************************************************************************)
(* The run: configuration check, paginated fetch, transform, filter,       *)
(* write, exit.                                                            *)
(***************************************************************************)
\* The most pages the modelled server serves before a page without token.
MaxPages == 3

Tokens == {"itrA", "itrB"}

EnvValues == {NULL, "", "set"}

Fields(start, end, title, venue, type, tickets, eventUrl) ==
    [fields |-> [Start |-> start, End |-> end, Title |-> title,
                 Venue |-> venue, Type |-> type, TicketsURL |-> tickets,
                 EventURL |-> eventUrl]]

Jam   == Str(<<"J", "a", "m">>)
Club  == Str(<<"C", "l", "u", "b">>)
LinkT == Str(<<"t", ".", "u", "k">>)
LinkE == Str(<<"e", ".", "u", "k">>)

recNov30 == Fields(Stamp(2023, 11, 30, 20, 0), NoStamp, Jam, Club, Absent, LinkT, Absent)
recJan31 == Fields(Stamp(2024, 1, 31, 20, 0), NoStamp, Jam, Absent, Absent, Absent, LinkE)
recFeb01 == Fields(Stamp(2024, 2, 1, 19, 30), Stamp(2024, 2, 1, 21, 0), Jam, Club,
                   Str(<<"S", "h", "o", "w">>), LinkT, LinkE)
recMay15 == Fields(Stamp(2024, 5, 15, 18, 0), Stamp(2024, 5, 15, 20, 30), Absent, Club,
                   Str(<<"J", "A", "M">>), Absent, Absent)
recBadType == Fields(Stamp(2024, 6, 2, 18, 0), NoStamp, Jam, Club,
                     Num(<<"7">>), Absent, Absent)

\* The record lists the modelled server may put on a page.
PageBodies == {<<>>, <<recNov30, recJan31>>, <<recFeb01, recMay15>>,
               <<recMay15>>, <<recBadType>>}

\* The clock readings of the modelled runs (UTC).
Nows == {Stamp(2024, 3, 10, 12, 0).v, Stamp(2024, 1, 15, 9, 0).v,
         Stamp(2024, 6, 30, 23, 30).v}

ProcessTZs == {"UTC", "Europe/London"}

PriorFile == [state |-> "prior", lastUpdated |-> NoISO, events |-> <<>>]
TruncatedFile == [state |-> "truncated", lastUpdated |-> NoISO, events |-> <<>>]

Init ==
    /\ apiKey \in EnvValues
    /\ baseId \in EnvValues
    /\ pc = "config"
    /\ records = <<>>
    /\ offset = NULL
    /\ nRequests = 0
    /\ nResponses = 0
    /\ sentOffset = NULL
    /\ lastStatus = NULL
    /\ lastToken = NULL
    /\ pages = <<>>
    /\ events = <<>>
    /\ now = 0
    /\ tz = NULL
    /\ prevMonthStart = <<>>
    /\ recent = <<>>
    /\ file = PriorFile
    /\ writes = 0
    /\ error = NULL
    /\ exitCode = NULL
    /\ tRecord = NULL
    /\ tResult = NULL

\* Mutant of ConfigMissing: the base identifier is not checked.
ConfigMissingKeyOnly(key, base) == key = NULL \/ key = ""

\* !AIRTABLE_API_KEY || !AIRTABLE_BASE_ID
ConfigMissing(key, base) == (key = NULL \/ key = "") \/ (base = NULL \/ base = "")

\* Lines 10-13, then the call of main() and of fetchApprovedEvents() up to
\* the head of the loop.
ConfigCheck ==
    /\ pc = "config"
    /\ IF ConfigMissing(apiKey, baseId)
       THEN pc' = "exited" /\ exitCode' = 1
       ELSE pc' = "request" /\ exitCode' = exitCode
    /\ UNCHANGED <<apiKey, baseId, records, offset, nRequests, nResponses,
                   sentOffset, lastStatus, lastToken, pages, events, now, tz,
                   prevMonthStart, recent, file, writes, error, tRecord, tResult>>

\* Mutant of OffsetParam: the continuation token is never sent.
OffsetParamDropped(off) == NULL

\* if (offset) params.set('offset', offset): the offset parameter sent.
OffsetParam(off) == IF off = NULL \/ off = "" THEN NULL ELSE off

\* Lines 20-30: build the parameters and issue the request.
SendRequest ==
    /\ pc = "request"
    /\ sentOffset' = OffsetParam(offset)
    /\ nRequests' = nRequests + 1
    /\ pc' = "awaiting"
    /\ UNCHANGED <<apiKey, baseId, records, offset, nResponses, lastStatus,
                   lastToken, pages, events, now, tz, prevMonthStart, recent, file,
                   writes, error, exitCode, tRecord, tResult>>

\* The responses the server may give to the request outstanding.
Responses ==
    {[kind |-> "http_error", records |-> <<>>, offset |-> NULL],
     [kind |-> "bad_body", records |-> <<>>, offset |-> NULL]}
    \cup {[kind |-> "ok", records |-> b, offset |-> o] :
            b \in PageBodies,
            o \in IF Len(pages) + 1 >= MaxPages THEN {NULL} ELSE Tokens \cup {NULL}}

\* Mutant of Push: a page is put in front of the earlier pages.
PushFront(acc, recs) == recs \o acc

\* events.push(...data.records)
Push(acc, recs) == acc \o recs

\* Mutant of LoopAgain: the loop stops after the first page.
LoopAgainNever(off) == FALSE

\* while (offset)
LoopAgain(off) == off # NULL /\ off # ""

\* Mutant of ResponseOk: the HTTP status is not looked at.
ResponseOkAlways(resp) == TRUE

\* response.ok
ResponseOk(resp) == resp.kind # "http_error"

\* Lines 32-41: the awaited response arrives.
ReceiveResponse ==
    /\ pc = "awaiting"
    /\ \E resp \in Responses :
         /\ nResponses' = nResponses + 1
         /\ lastStatus' = resp.kind
         /\ IF ~ResponseOk(resp)
            THEN /\ error' = "ApiError"
                 /\ pc' = "rejected"
                 /\ UNCHANGED <<records, offset, lastToken, pages>>
            ELSE IF resp.kind = "bad_body"
            THEN /\ error' = "BodyError"
                 /\ pc' = "rejected"
                 /\ UNCHANGED <<records, offset, lastToken, pages>>
            ELSE /\ records' = Push(records, resp.records)
                 /\ offset' = resp.offset
                 /\ lastToken' = resp.offset
                 /\ pages' = Append(pages, [records |-> resp.records,
                                            hasToken |-> resp.offset # NULL])
                 /\ pc' = IF LoopAgain(resp.offset) THEN "request" ELSE "fetched"
                 /\ error' = error
    /\ UNCHANGED <<apiKey, baseId, nRequests, sentOffset, events, now, tz,
                   prevMonthStart, recent, file, writes, exitCode, tRecord, tResult>>

\* The records the modelled server can return.
PoolRecords == UNION {{b[i] : i \in 1..Len(b)} : b \in PageBodies}

\* transformEvent on each of them, tabulated (it is a pure function).
TransformTable == [r \in PoolRecords |-> transformEvent(r)]

\* records.map(transformEvent): the results, in order.
MapTransform(recs) == [i \in 1..Len(recs) |-> TransformTable[recs[i]]]

\* Line 83.
TransformAll ==
    /\ pc = "fetched"
    /\ LET res == MapTransform(records)
       IN  IF \E i \in 1..Len(res) : res[i].threw
           THEN error' = "TypeError" /\ pc' = "rejected" /\ events' = events
           ELSE /\ events' = [i \in 1..Len(res) |-> res[i].value]
                /\ pc' = "filter"
                /\ error' = error
    /\ UNCHANGED <<apiKey, baseId, records, offset, nRequests, nResponses,
                   sentOffset, lastStatus, lastToken, pages, now, tz, prevMonthStart,
                   recent, file, writes, exitCode, tRecord, tResult>>

\* Offset from UTC of the process's time zone at instant t.
ProcessOffset(zone, t) == IF zone = "UTC" THEN 0 ELSE LondonOffset[t]

\* The instant of a wall-clock time l (minutes) of the process's time zone.
LocalToInstant(zone, l) ==
    IF zone = "UTC" THEN l
    ELSE IF LondonOffset[l - 60] = 60 THEN l - 60 ELSE l

\* new Date(year, monthIndex, 1) in the process's time zone; the month index
\* may be -1 (Date carries it into the year).
FirstOfMonth(zone, year, monthIndex) ==
    LET y == year + (monthIndex \div 12)
        m == (monthIndex % 12) + 1
    IN  LocalToInstant(zone, DaysFromCivil[y, m, 1] * MinutesPerDay)

\* Lines 89-91: new Date(now.getFullYear(), now.getMonth() - 1, 1)
\*   .toLocaleDateString('en-CA', {timeZone: 'Europe/London'})
PrevMonthStart(t, zone) ==
    LET local == WallClock[t, ProcessOffset(zone, t)]
    IN  LondonDate[FirstOfMonth(zone, local.y, (local.mo - 1) - 1)]

\* Mutant of FilterRecent: the kept events come out newest first.
FilterRecentReversed(evs, threshold) ==
    LET kept == SelectSeq(evs, LAMBDA e : StrGE(e.date.v, threshold))
    IN  [i \in 1..Len(kept) |-> kept[Len(kept) + 1 - i]]

\* Line 92: events.filter((e) => e.date >= prevMonthStart)
FilterRecent(evs, threshold) ==
    SelectSeq(evs, LAMBDA e : StrGE(e.date.v, threshold))

\* Lines 85-93.
FilterStep ==
    /\ pc = "filter"
    /\ \E n \in Nows, zone \in ProcessTZs :
         /\ now' = ParseISO(n)
         /\ tz' = zone
         /\ prevMonthStart' = PrevMonthStart(ParseISO(n), zone)
         /\ recent' = FilterRecent(events, PrevMonthStart(ParseISO(n), zone))
    /\ pc' = "write"
    /\ UNCHANGED <<apiKey, baseId, records, offset, nRequests, nResponses,
                   sentOffset, lastStatus, lastToken, pages, events, file, writes, error,
                   exitCode, tRecord, tResult>>

\* new Date().toISOString(), to the minute.
ToISOString(t) == WallClock[t, 0]

\* What fs.writeFileSync may do: write the whole content; fail before the
\* file is opened; fail after it was opened (and so truncated).
WriteOutcomes == {"ok", "open_failed", "write_failed"}

\* Lines 95-102.
WriteFile ==
    /\ pc = "write"
    /\ \E u \in Nows, outcome \in WriteOutcomes :
         /\ ParseISO(u) >= now
         /\ IF outcome = "ok"
            THEN /\ file' = [state |-> "complete",
                             lastUpdated |-> ToISOString(ParseISO(u)),
                             events |-> recent]
                 /\ writes' = writes + 1
                 /\ pc' = "resolved"
                 /\ error' = error
            ELSE /\ file' = IF outcome = "write_failed" THEN TruncatedFile ELSE file
                 /\ writes' = IF outcome = "write_failed" THEN writes + 1 ELSE writes
                 /\ pc' = "rejected"
                 /\ error' = "WriteError"
    /\ UNCHANGED <<apiKey, baseId, records, offset, nRequests, nResponses,
                   sentOffset, lastStatus, lastToken, pages, events, now, tz,
                   prevMonthStart, recent, exitCode, tRecord, tResult>>

\* Lines 105-108: main() rejected.
CatchHandler ==
    /\ pc = "rejected"
    /\ pc' = "exited"
    /\ exitCode' = 1
    /\ UNCHANGED <<apiKey, baseId, records, offset, nRequests, nResponses,
                   sentOffset, lastStatus, lastToken, pages, events, now, tz,
                   prevMonthStart, recent, file, writes, error, tRecord, tResult>>

\* main() resolved and nothing is left to run: the process ends normally.
ProcessEnd ==
    /\ pc = "resolved"
    /\ pc' = "exited"
    /\ exitCode' = 0
    /\ UNCHANGED <<apiKey, baseId, records, offset, nRequests, nResponses,
                   sentOffset, lastStatus, lastToken, pages, events, now, tz,
                   prevMonthStart, recent, file, writes, error, tRecord, tResult>>

Next ==
    \/ ConfigCheck
    \/ SendRequest
    \/ ReceiveResponse
    \/ TransformAll
    \/ FilterStep
    \/ WriteFile
    \/ CatchHandler
    \/ ProcessEnd

Spec == Init /\ [][Next]_vars

\* Every step of the script is eventually taken: the endpoint answers every
\* request and the runtime runs every continuation.
FairSpec == Spec /\ WF_vars(Next)

(***************************************************************************)
(* transformEvent alone, on every combination of present and absent fields.*)
(***************************************************************************)
StartValues == {NoStamp, Stamp(2024, 3, 15, 19, 30), Stamp(2024, 7, 1, 23, 15),
                Stamp(2024, 3, 31, 0, 59), Stamp(2024, 10, 27, 1, 0)}
EndValues == {NoStamp, Stamp(2024, 3, 15, 21, 0), Stamp(2024, 7, 1, 23, 45)}
TypeValues == {Absent, Str(<<"S", "h", "o", "w">>), Str(<<"J", "A", "M">>),
               Str(<<"c", "l", "a", "s", "s">>), Num(<<"7">>), Num(<<"0">>)}
TextValues == {Absent, Jam, Num(<<"4", "2">>)}
TicketValues == {Absent, LinkT}
EventUrlValues == {Absent, LinkE}

RecordSpace ==
    {Fields(s, e, ti, ve, ty, tu, eu) :
        s \in StartValues, e \in EndValues, ti \in TextValues,
        ve \in {Absent, Club}, ty \in TypeValues, tu \in TicketValues,
        eu \in EventUrlValues}

InitT ==
    /\ apiKey = "set"
    /\ baseId = "set"
    /\ pc = "transform"
    /\ records = <<>>
    /\ offset = NULL
    /\ nRequests = 0
    /\ nResponses = 0
    /\ sentOffset = NULL
    /\ lastStatus = NULL
    /\ lastToken = NULL
    /\ pages = <<>>
    /\ events = <<>>
    /\ now = 0
    /\ tz = NULL
    /\ prevMonthStart = <<>>
    /\ recent = <<>>
    /\ file = PriorFile
    /\ writes = 0
    /\ error = NULL
    /\ exitCode = NULL
    /\ tRecord \in RecordSpace
    /\ tResult = [threw |-> FALSE, called |-> FALSE]

ApplyTransform ==
    /\ pc = "transform"
    /\ tResult' = transformEvent(tRecord)
    /\ pc' = "transformed"
    /\ UNCHANGED <<apiKey, baseId, records, offset, nRequests, nResponses,
                   sentOffset, lastStatus, lastToken, pages, events, now, tz,
                   prevMonthStart, recent, file, writes, error, exitCode, tRecord>>

NextT == ApplyTransform

SpecT == InitT /\ [][NextT]_vars

(***************************************************************************)
(* Properties.                                                             *)
(***************************************************************************)
EnvEmpty(v) == v = NULL \/ v = ""

\* C1: when AIRTABLE_API_KEY or AIRTABLE_BASE_ID is unset or empty, the
\* process exits with status 1, no request is ever issued and events.json
\* is never written.
C1_MissingConfigExits ==
    (EnvEmpty(apiKey) \/ EnvEmpty(baseId)) /\ pc # "config"
        => /\ pc = "exited"
           /\ exitCode = 1
           /\ nRequests = 0
           /\ nResponses = 0
           /\ writes = 0
           /\ file = PriorFile

C1_Witness ==
    pc = "exited" /\ apiKey = "set" /\ baseId = "" /\ exitCode = 1

C2_AbortedOnStatus ==
    lastStatus = "http_error"
        => /\ pc \in {"rejected", "exited"}
           /\ error = "ApiError"
           /\ nRequests = nResponses
           /\ writes = 0
           /\ file = PriorFile
           /\ (pc = "exited" => exitCode = 1)

\* C2: when a page request, the first or a later one, is answered with a
\* non-success status, no further request is issued, the run exits with
\* status 1 and events.json keeps its prior content.
C2_HttpErrorAborts ==
    /\ []C2_AbortedOnStatus
    /\ [][lastStatus = "http_error" => nRequests' = nRequests /\ file' = file]_vars
    /\ (lastStatus = "http_error" ~> (pc = "exited" /\ exitCode = 1))

C2_Witness ==
    /\ lastStatus = "http_error"
    /\ Len(pages) >= 2
    /\ Len(records) >= 1
    /\ pc = "exited"

RECURSIVE Flatten(_)
Flatten(ps) ==
    IF ps = <<>> THEN <<>> ELSE Head(ps).records \o Flatten(Tail(ps))

\* fetchApprovedEvents has returned.
FetchReturned ==
    /\ pc \notin {"config", "request", "awaiting"}
    /\ lastStatus = "ok"

\* C3: when every page request succeeds, fetchApprovedEvents returns the
\* concatenation of the record lists of all pages up to and including the
\* first page without a continuation token, in page order and within-page
\* order.
C3_ConcatenationOfPages ==
    FetchReturned
        => /\ Len(pages) = nResponses
           /\ Len(pages) = nRequests
           /\ \A i \in 1..(Len(pages) - 1) : pages[i].hasToken
           /\ ~pages[Len(pages)].hasToken
           /\ records = Flatten(pages)

C3_Witness ==
    /\ pc = "fetched"
    /\ Len(pages) = 3
    /\ pages[1].records # <<>>
    /\ pages[1].records # pages[2].records
    /\ pages[3].records # <<>>

\* The first day of the month before the current month, both taken on the
\* Europe/London wall clock at instant t, as YYYY-MM-DD.
LondonPrevMonthFirst(t) ==
    LET w == WallClock[t, LondonOffset[t]]
        y == IF w.mo = 1 THEN w.y - 1 ELSE w.y
        m == IF w.mo = 1 THEN 12 ELSE w.mo - 1
    IN  Pad4(y) \o <<"-">> \o Pad2(m) \o <<"-", "0", "1">>

\* The events of evs dated on or after a threshold, in the order of evs.
OnOrAfter(evs, threshold) ==
    SelectSeq(evs, LAMBDA e : StrGE(e.date.v, threshold))

\* C4: for every run instant, the threshold is the first day of the month
\* preceding the current month, both in Europe/London, and the written list
\* holds exactly the transformed events dated on or after it.
C4_ThresholdIsLondonPrevMonth ==
    /\ pc \in {"write", "resolved"}
           => /\ prevMonthStart = LondonPrevMonthFirst(now)
              /\ recent = OnOrAfter(events, LondonPrevMonthFirst(now))
    /\ file.state = "complete"
           => file.events = OnOrAfter(events, LondonPrevMonthFirst(now))

\* transformEvent of every fetched record, for a list on which none throws.
TransformedOf(recs) == [i \in 1..Len(recs) |-> transformEvent(recs[i]).value]

\* sub can be obtained from full by deleting elements.
RECURSIVE IsSubsequence(_, _)
IsSubsequence(sub, full) ==
    IF sub = <<>> THEN TRUE
    ELSE IF full = <<>> THEN FALSE
    ELSE IF Head(sub) = Head(full) THEN IsSubsequence(Tail(sub), Tail(full))
    ELSE IsSubsequence(sub, Tail(full))

AscendingStart(recs) ==
    \A i \in 1..(Len(recs) - 1) :
        ParseISO(recs[i].fields.Start.v) <= ParseISO(recs[i + 1].fields.Start.v)

NonDecreasingDates(evs) ==
    \A i \in 1..(Len(evs) - 1) : StrGE(evs[i + 1].date.v, evs[i].date.v)

\* C5: the written events are an order-preserving subsequence of the
\* transformed fetched records; when the server returned the records in
\* ascending Start order their dates are non-decreasing.
C5_OrderPreserved ==
    file.state = "complete"
        => /\ IsSubsequence(file.events, TransformedOf(records))
           /\ AscendingStart(records) => NonDecreasingDates(file.events)

C5_Witness ==
    /\ file.state = "complete"
    /\ AscendingStart(records)
    /\ Len(file.events) >= 2
    /\ Len(file.events) < Len(records)
    /\ file.events[1].date # file.events[2].date

FetchComplete ==
    /\ nRequests = nResponses
    /\ Len(pages) = nResponses
    /\ lastStatus = "ok"
    /\ lastToken = NULL

ExitedZeroWithFullFile ==
    /\ exitCode = 0
    /\ error = NULL
    /\ writes = 1
    /\ file.state = "complete"
    /\ FetchComplete
    /\ file.events = OnOrAfter(TransformedOf(Flatten(pages)), prevMonthStart)

\* C6 as stated: every run ends either with status 0 and events.json written
\* once, after all page requests, with the full filtered list, or with
\* status 1 and events.json not written at all.
C6_TwoOutcomes ==
    pc = "exited"
        => \/ ExitedZeroWithFullFile
           \/ exitCode = 1 /\ writes = 0 /\ file = PriorFile

\* C6, amended: every run ends either with status 0 and events.json written
\* once, after all page requests, with the full filtered list, or with
\* status 1 and events.json either not written at all or, only when the write
\* itself failed, truncated; the file is never written before the fetch is
\* complete, and never when the fetch or the transform failed.
C6_TwoOutcomesOrTruncated ==
    /\ writes <= 1
    /\ file.state = "complete" => FetchComplete /\ error = NULL
    /\ error \in {"ApiError", "BodyError", "TypeError"}
           => writes = 0 /\ file = PriorFile
    /\ pc = "exited"
           => \/ ExitedZeroWithFullFile
              \/ exitCode = 1 /\ writes = 0 /\ file = PriorFile
              \/ exitCode = 1 /\ error = "WriteError" /\ file = TruncatedFile

C6_Witness ==
    /\ pc = "exited"
    /\ exitCode = 0
    /\ Len(pages) >= 2
    /\ Len(file.events) >= 1
    /\ Len(file.events) < Len(records)

\* At most one request is outstanding, and one is exactly while the script
\* awaits a response.
OneRequestAtATime ==
    /\ nRequests - nResponses \in {0, 1}
    /\ (pc = "awaiting") <=> (nRequests = nResponses + 1)

\* A request is issued only when none is outstanding; the first carries no
\* offset; a later one follows a successful response with a token and
\* carries that token.
RequestFollowsToken ==
    nRequests' # nRequests
        => /\ nRequests' = nRequests + 1
           /\ nRequests = nResponses
           /\ nRequests = 0 => sentOffset' = NULL
           /\ nRequests > 0 => /\ lastStatus = "ok"
                               /\ lastToken \in Tokens
                               /\ sentOffset' = lastToken

\* After a response without token, or a failed one, no request is issued.
NoRequestAfterLastPage ==
    nResponses > 0 /\ nRequests = nResponses
    /\ (lastStatus # "ok" \/ lastToken = NULL)
        => nRequests' = nRequests

\* C10: the page requests form a strictly sequential chain, each carrying
\* the token of the response before it, ending at the first response without
\* token; at most one request is outstanding; the run terminates.
C10_SequentialChain ==
    /\ []OneRequestAtATime
    /\ [][RequestFollowsToken]_vars
    /\ [][NoRequestAfterLastPage]_vars
    /\ <>(pc = "exited")

C10_Witness ==
    /\ pc = "exited"
    /\ exitCode = 0
    /\ nRequests = 3
    /\ sentOffset = "itrB"
    /\ pages[1].hasToken /\ pages[2].hasToken /\ ~pages[3].hasToken

(***************************************************************************)
(* Properties of transformEvent alone (SpecT).                             *)
(***************************************************************************)
Returned == pc = "transformed" /\ ~tResult.threw

TypeIsStringOrAbsent(record) == record.fields.Type.t \in {"undefined", "string"}

EmptyString == [t |-> "string", v |-> <<>>]

ExpectedType(fields) ==
    IF fields.Type.t = "undefined" THEN [t |-> "string", v |-> Show]
    ELSE [t |-> "string", v |-> ToLowerCase(fields.Type.v)]

ExpectedUrl(fields) ==
    IF fields.TicketsURL.t # "undefined" THEN fields.TicketsURL
    ELSE IF fields.EventURL.t # "undefined" THEN fields.EventURL
    ELSE EmptyString

FieldOrEmpty(x) == IF x.t = "undefined" THEN EmptyString ELSE x

\* C7: type is the lower-cased Type, or "show" when Type is absent; url is
\* Tickets URL, else Event URL, else the empty string; title and venue are
\* the source field or the empty string; description is the empty string.
C7_FieldMapping ==
    pc = "transformed" /\ TypeIsStringOrAbsent(tRecord)
        => /\ ~tResult.threw
           /\ tResult.value.type = ExpectedType(tRecord.fields)
           /\ \A i \in 1..Len(tResult.value.type.v) :
                  \A j \in 1..Len(UpperCase) : tResult.value.type.v[i] # UpperCase[j]
           /\ tResult.value.url = ExpectedUrl(tRecord.fields)
           /\ tResult.value.title = FieldOrEmpty(tRecord.fields.Title)
           /\ tResult.value.venue = FieldOrEmpty(tRecord.fields.Venue)
           /\ tResult.value.description = EmptyString

C7_Witness ==
    /\ Returned
    /\ tRecord.fields.Type = Str(<<"J", "A", "M">>)
    /\ tResult.value.type = Str(<<"j", "a", "m">>)
    /\ tRecord.fields.TicketsURL = LinkT
    /\ tRecord.fields.EventURL = LinkE
    /\ tResult.value.url = LinkT
    /\ tRecord.fields.Title = Absent

EnDash == <<"U+2013">>

\* C8: time is the London HH:MM of Start alone when End is absent, else
\* the London HH:MM of Start and of End joined by a single en dash; Start
\* 2024-03-15T19:30Z with End 2024-03-15T21:00Z gives date 2024-03-15 and
\* time 19:30, en dash, 21:00.
C8_TimeRange ==
    Returned /\ tRecord.fields.Start.t = "string"
        => /\ tResult.value.time.v =
                 IF tRecord.fields.End.t = "undefined"
                 THEN LondonTime(tRecord.fields.Start)
                 ELSE LondonTime(tRecord.fields.Start) \o EnDash
                          \o LondonTime(tRecord.fields.End)
           /\ (/\ tRecord.fields.Start = Stamp(2024, 3, 15, 19, 30)
               /\ tRecord.fields.End = Stamp(2024, 3, 15, 21, 0))
                  => /\ tResult.value.date.v =
                          <<"2", "0", "2", "4", "-", "0", "3", "-", "1", "5">>
                     /\ tResult.value.time.v =
                          <<"1", "9", ":", "3", "0", "U+2013", "2", "1", ":", "0", "0">>

SevenKeys == {"date", "title", "venue", "time", "type", "url", "description"}

NoSideEffect ==
    /\ file = PriorFile
    /\ writes = 0
    /\ nRequests = 0
    /\ exitCode = NULL

\* C9 as stated: whatever fields are absent and whatever value a present
\* field holds, transformEvent returns an event with all seven keys and
\* raises nothing.
C9_NeverThrows ==
    pc = "transformed"
        => /\ ~tResult.threw
           /\ DOMAIN tResult.value = SevenKeys
           /\ NoSideEffect

\* JavaScript truthiness of a field value.
Truthy(x) ==
    /\ x.t # "undefined"
    /\ ~(x.t = "string" /\ Len(x.v) = 0)
    /\ ~(x.t = "number" /\ x.v = <<"0">>)

\* C9, amended: transformEvent raises an error exactly when Type holds a
\* truthy value that is not a string; otherwise, whichever of Title, Venue,
\* Type, End, Tickets URL and Event URL are absent and whatever the other
\* present fields hold, it returns an event with all seven keys; it has no
\* side effect.
C9_ThrowsOnlyOnNonStringType ==
    pc = "transformed"
        => /\ tResult.threw
                 <=> (Truthy(tRecord.fields.Type) /\ tRecord.fields.Type.t # "string")
           /\ ~tResult.threw => DOMAIN tResult.value = SevenKeys
           /\ NoSideEffect

C9_Witness ==
    /\ Returned
    /\ tRecord.fields.Title = Absent
    /\ tRecord.fields.Venue = Absent
    /\ tRecord.fields.Type = Absent
    /\ tRecord.fields.End = NoStamp
    /\ tRecord.fields.TicketsURL = Absent
    /\ tRecord.fields.EventURL = Absent
    /\ DOMAIN tResult.value = SevenKeys

=============================================================================
